---------------------------- MODULE Spec2Model ----------------------------
(***************************************************************************)
(* A state-machine model of src/script.js, the client-side script of the   *)
(* BALMA event-venue page: loading page, gallery lightbox, storia slider,  *)
(* contact-form validation and the reviews banner.                         *)
(*                                                                         *)
(* One action is one dispatch of a browser event (a click, a key, a       *)
(* scroll, a timer callback): every listener the script registered for it  *)
(* runs, in registration order.  Time is counted in milliseconds; an       *)
(* action Tick(dt) lets dt ms pass and never passes a pending timer's due  *)
(* time, and a timer's callback runs when its remaining time is 0.         *)
(***************************************************************************)
EXTENDS Integers, Sequences, FiniteSets

VARIABLES
    \* the page the script was loaded into (fixed at load time)
    galleryLen,        \* galleryImages.length            (script.js:210-225)
    sliderLen,         \* storiaSliderImages.length       (script.js:298)
    dotsLen,           \* sliderDots.length               (script.js:301)
    reviewLen,         \* reviewItems.length              (script.js:574)
    bannerSetup,       \* reviewsBanner && doveSiamoSection && contactSection
    scriptThrewAt,     \* the line whose statement threw and ended the script; 0: none
    \* 1. loading page
    hasInteracted,     \* script.js:48
    loadingHidden,     \* loadingPage.classList contains 'hidden'
    onceListeners,     \* window {once: true} listeners not yet consumed
    loadingTimer,      \* ms left of setTimeout(hideLoadingPage, 3000); NoTimer when gone
    domLoaded,         \* DOMContentLoaded has been dispatched
    bodyOverflow,      \* document.body.style.overflow
    \* 5. gallery lightbox
    lightboxActive,    \* lightbox.classList contains 'active'
    currentImageIndex, \* script.js:218
    \* 6. storia slider
    currentSlideIndex, \* script.js:302
    sliderInterval,    \* script.js:303, the handle of the last setInterval (0: undefined)
    sliderTimers,      \* the pending interval timers running showNextSlide: {[id, left]}
    \* reviews banner
    currentReviewIndex,\* script.js:575
    reviewInterval,    \* ms left of setInterval(rotateReviews, 8000); NoTimer when none
    reviewTimeouts,    \* ms left of each pending setTimeout(..., 500) of rotateReviews
    bannerVisible,     \* reviewsBanner.classList contains 'visible'
    bannerDisplayNone, \* reviewsBanner.style.display = 'none'
    scrollY,           \* window.scrollY
    windowHeight,      \* window.innerHeight
    doveSiamoTop,      \* doveSiamoSection.offsetTop
    contactTop,        \* contactSection.offsetTop
    contactHeight,     \* contactSection.offsetHeight
    \* 2. navigation bar and 10. back-to-top button: the debounced scroll listeners
    navTimeout,        \* ms left of the navbar listener's debounce timeout; NoTimer when none
    topTimeout,        \* ms left of the back-to-top listener's debounce timeout
    lastScrollTop,     \* script.js:111
    backToTopShown,    \* backToTopButton.style.visibility = 'visible'
    navArgs,           \* args captured by the navbar listener's pending `later`
    topArgs,           \* args captured by the back-to-top listener's pending `later`
    \* 8. contact form
    fieldValue,        \* the value of each form field
    fieldError,        \* each field's .form-group carries the class 'error'
    popupActive,       \* thankYouPopup.classList contains 'active'
    popupTimers,       \* ms left of each pending setTimeout(closeThankYouPopup, 3000)
    submitTimers,      \* ms left of each pending setTimeout(contactForm.submit, 100)
    submitCount,       \* how often contactForm.submit() ran (capped)
    \* observation
    lastEvent,         \* the event whose listeners ran last: <<kind, target, argument>>
    lastThrew,         \* a listener of the last event ended with an uncaught exception
    lastValid,         \* isValid of the last submit handler run
    sliderGap,         \* ms since the slider index was last advanced, set, or started
    reviewGap,         \* ms since currentReviewIndex was last advanced, or since start
    reviewAdvanced,    \* currentReviewIndex has been advanced at least once
    scrollGap,         \* ms since the last scroll event was dispatched
    navRunGap,         \* ms since the body of the navbar scroll listener last ran
    topRunGap          \* ms since the body of the back-to-top scroll listener last ran

configVars  == <<galleryLen, sliderLen, dotsLen, reviewLen, bannerSetup,
                 scriptThrewAt>>
loadingVars == <<hasInteracted, loadingHidden, onceListeners, loadingTimer,
                 domLoaded, bodyOverflow>>
lightboxVars == <<lightboxActive, currentImageIndex>>
sliderVars  == <<currentSlideIndex, sliderInterval, sliderTimers, sliderGap>>
reviewVars  == <<currentReviewIndex, reviewInterval, reviewTimeouts, reviewGap,
                 reviewAdvanced>>
gateVars    == <<bannerVisible, bannerDisplayNone, scrollY, windowHeight,
                 doveSiamoTop, contactTop, contactHeight>>
scrollVars  == <<navTimeout, topTimeout, lastScrollTop, backToTopShown, navArgs,
                 topArgs, scrollGap, navRunGap, topRunGap>>
formVars    == <<fieldValue, fieldError, popupActive, popupTimers, submitTimers,
                 submitCount, lastValid>>
vars == <<configVars, loadingVars, lightboxVars, sliderVars, reviewVars, gateVars,
          scrollVars, formVars, lastEvent, lastThrew>>

---------------------------------------------------------------------------
(* Bounds of the model *)

MaxGallery == 3     \* gallery images: 0..MaxGallery
MaxSlides  == 3     \* slider images:  0..MaxSlides
MaxDots    == 3     \* slider dots:    0..MaxDots
MaxReviews == 2     \* review items:   0..MaxReviews
MaxPending == 1     \* valid submits whose timers are pending at once
MaxSubmits == 2     \* contactForm.submit() calls counted
MaxEmailLen == 6    \* characters of an email value

(* Program constants *)

LoadingDelay  == 3000   \* script.js:65
SliderPeriod  == 8000   \* script.js:337, 342
ReviewPeriod  == 8000   \* script.js:592
ReviewExit    == 500    \* script.js:588
DebounceWait  == 100    \* script.js:121, 689
BackToTopFrom == 500    \* script.js:682
PopupDelay    == 3000   \* script.js:472
SubmitDelay   == 100    \* script.js:463

(* No timer pending: the value of a timer variable whose timer has run or *)
(* was never set.                                                          *)
NoTimer == -1

(* No debounced call is pending: no arguments are captured. *)
NoArgs == -1

(* JavaScript's NaN, as the value of an index variable. *)
NaN == -1000

---------------------------------------------------------------------------
(* Helpers *)

Min(a, b) == IF a <= b THEN a ELSE b

SeqToSet(s) == {s[i] : i \in 1..Len(s)}

(* JavaScript's a % n on numbers: NaN when an operand is NaN or n is 0,    *)
(* else the remainder with the sign of the dividend.                       *)
JsRem(a, n) ==
    IF a = NaN \/ n = NaN \/ n = 0 THEN NaN
    ELSE IF a >= 0 THEN a % n ELSE 0 - ((0 - a) % n)

(* JavaScript's a + b on numbers. *)
JsAdd(a, b) == IF a = NaN \/ b = NaN THEN NaN ELSE a + b

(* array[i] is undefined: i is no index of an array of length n. *)
Undefined(i, n) == ~(i \in 0..(n - 1))

(* The script ran the statement at this line: an exception thrown by a     *)
(* top-level statement ends the script there, and the statements after it  *)
(* never run.                                                              *)
Reached(line) == scriptThrewAt = 0 \/ line < scriptThrewAt

---------------------------------------------------------------------------
(* 1. LOADING PAGE (script.js:42-65) *)

(* A hideLoadingPage() without its test of hasInteracted. *)
hideLoadingPageAlways(st) ==
    [hasInteracted |-> TRUE, loadingHidden |-> TRUE, bodyOverflow |-> "auto"]

(* hideLoadingPage() on the loading state st = [hasInteracted,            *)
(* loadingHidden, bodyOverflow].                                           *)
hideLoadingPage(st) ==
    IF ~st.hasInteracted
    THEN [hasInteracted |-> TRUE, loadingHidden |-> TRUE, bodyOverflow |-> "auto"]
    ELSE st

(* The window's {once: true} listener of event type ev, run after the     *)
(* listeners nearer the target left body.style.overflow at ov: a once      *)
(* listener is removed when its event is first dispatched.                 *)
WindowOnce(ev, ov) ==
    LET st  == [hasInteracted |-> hasInteracted, loadingHidden |-> loadingHidden,
                bodyOverflow |-> ov]
        out == IF ev \in onceListeners THEN hideLoadingPage(st) ELSE st
    IN  /\ hasInteracted' = out.hasInteracted
        /\ loadingHidden' = out.loadingHidden
        /\ bodyOverflow'  = out.bodyOverflow
        /\ onceListeners' = onceListeners \ {ev}
        /\ UNCHANGED <<loadingTimer, domLoaded>>

(* setTimeout(hideLoadingPage, 3000) comes due. *)
LoadingTimeout ==
    /\ loadingTimer = 0
    /\ LET out == hideLoadingPage([hasInteracted |-> hasInteracted,
                                   loadingHidden |-> loadingHidden,
                                   bodyOverflow |-> bodyOverflow])
       IN  /\ hasInteracted' = out.hasInteracted
           /\ loadingHidden' = out.loadingHidden
           /\ bodyOverflow'  = out.bodyOverflow
    /\ loadingTimer' = NoTimer
    /\ lastEvent' = <<"timer", "hideLoadingPage", 0>>
    /\ lastThrew' = FALSE
    /\ UNCHANGED <<configVars, onceListeners, domLoaded, lightboxVars, sliderVars,
                   reviewVars, gateVars, scrollVars, formVars>>

(* The DOMContentLoaded listener (script.js:725-732). *)
DomContentLoaded ==
    /\ Reached(725)
    /\ ~domLoaded
    /\ domLoaded' = TRUE
    /\ bodyOverflow' = "hidden"
    /\ lastEvent' = <<"document", "DOMContentLoaded", 0>>
    /\ lastThrew' = FALSE
    /\ UNCHANGED <<configVars, hasInteracted, loadingHidden, onceListeners,
                   loadingTimer, lightboxVars, sliderVars, reviewVars, gateVars,
                   scrollVars, formVars>>

(* A wheel or touchstart event, or a click on an element with no click    *)
(* listener of its own: only the window's once listener runs.              *)
WindowEvent(ev) ==
    /\ ev \in {"wheel", "touchstart", "click"}
    /\ WindowOnce(ev, bodyOverflow)
    /\ lastEvent' = <<ev, "window", 0>>
    /\ lastThrew' = FALSE
    /\ UNCHANGED <<configVars, lightboxVars, sliderVars, reviewVars, gateVars,
                   scrollVars, formVars>>

---------------------------------------------------------------------------
(* 5. GALLERY LIGHTBOX (script.js:205-290) *)

(* updateLightboxImage() throws a TypeError when galleryImages[index] is  *)
(* undefined (script.js:247-248).                                          *)
updateLightboxImageThrows(index, n) == Undefined(index, n)

(* The index showNextImage() stores (script.js:254). *)
showNextImage(index, n) == JsRem(JsAdd(index, 1), n)

(* The index showPrevImage() stores (script.js:259). *)
showPrevImage(index, n) == JsRem(JsAdd(JsAdd(index, 0 - 1), n), n)

(* openLightbox() with the index already stored: [active, overflow,       *)
(* threw]; the exception of updateLightboxImage() skips line 238.          *)
openLightbox(index, n, ov) ==
    IF updateLightboxImageThrows(index, n)
    THEN [active |-> TRUE, overflow |-> ov, threw |-> TRUE]
    ELSE [active |-> TRUE, overflow |-> "hidden", threw |-> FALSE]

(* A closeLightbox() that toggles the class instead of removing it. *)
closeLightboxToggle == [active |-> ~lightboxActive, overflow |-> "auto"]

(* closeLightbox(): [active, overflow]. *)
closeLightbox == [active |-> FALSE, overflow |-> "auto"]

(* A click on gallery item i (script.js:228-233), then the window's once  *)
(* click listener.                                                         *)
GalleryItemClick(i) ==
    /\ Reached(229)
    /\ i \in 0..(galleryLen - 1)
    /\ LET out == openLightbox(i, galleryLen, bodyOverflow)
       IN  /\ currentImageIndex' = i
           /\ lightboxActive' = out.active
           /\ lastThrew' = out.threw
           /\ WindowOnce("click", out.overflow)
    /\ lastEvent' = <<"click", "galleryItem", i>>
    /\ UNCHANGED <<configVars, sliderVars, reviewVars, gateVars, scrollVars, formVars>>

(* The lightbox's controls are on screen only while it is open. *)
LightboxNextClick ==
    /\ Reached(265)
    /\ lightboxActive
    /\ currentImageIndex' = showNextImage(currentImageIndex, galleryLen)
    /\ lastThrew' = updateLightboxImageThrows(currentImageIndex', galleryLen)
    /\ WindowOnce("click", bodyOverflow)
    /\ lastEvent' = <<"click", "lightboxNext", 0>>
    /\ UNCHANGED <<configVars, lightboxActive, sliderVars, reviewVars, gateVars,
                   scrollVars, formVars>>

LightboxPrevClick ==
    /\ Reached(266)
    /\ lightboxActive
    /\ currentImageIndex' = showPrevImage(currentImageIndex, galleryLen)
    /\ lastThrew' = updateLightboxImageThrows(currentImageIndex', galleryLen)
    /\ WindowOnce("click", bodyOverflow)
    /\ lastEvent' = <<"click", "lightboxPrev", 0>>
    /\ UNCHANGED <<configVars, lightboxActive, sliderVars, reviewVars, gateVars,
                   scrollVars, formVars>>

(* The event e is a click that calls closeLightbox(). *)
IsCloseClick(e) == e[1] = "click" /\ e[2] \in {"lightboxClose", "lightbox"}

(* A click on the close button (script.js:264), or on the lightbox's own  *)
(* background, e.target === lightbox (script.js:269-273): while the        *)
(* lightbox is open, or as the second click of a double click whose first  *)
(* click closed it.  The event's argument is 1 when the lightbox was       *)
(* already closed.                                                         *)
LightboxCloseClick(target) ==
    /\ target \in {"lightboxClose", "lightbox"}
    /\ Reached(IF target = "lightboxClose" THEN 264 ELSE 269)
    /\ lightboxActive \/ IsCloseClick(lastEvent)
    /\ lightboxActive' = closeLightbox.active
    /\ WindowOnce("click", closeLightbox.overflow)
    /\ lastEvent' = <<"click", target, IF lightboxActive THEN 0 ELSE 1>>
    /\ lastThrew' = FALSE
    /\ UNCHANGED <<configVars, currentImageIndex, sliderVars, reviewVars, gateVars,
                   scrollVars, formVars>>

Keys == {"Escape", "ArrowRight", "ArrowLeft", "Enter"}

(* The keydown listener without its test of the lightbox being open. *)
keydownHandlerUnguarded(k, active, index, n, ov) ==
    LET same == [active |-> active, index |-> index, overflow |-> ov, threw |-> FALSE]
    IN  CASE k = "Escape" ->
                [same EXCEPT !.active = FALSE, !.overflow = "auto"]
          [] k = "ArrowRight" ->
                [same EXCEPT !.index = JsRem(JsAdd(index, 1), n),
                             !.threw = Undefined(JsRem(JsAdd(index, 1), n), n)]
          [] k = "ArrowLeft" ->
                [same EXCEPT !.index = JsRem(JsAdd(JsAdd(index, 0 - 1), n), n),
                             !.threw = Undefined(
                                           JsRem(JsAdd(JsAdd(index, 0 - 1), n), n), n)]
          [] OTHER -> same

(* The document's keydown listener (script.js:276-290):                   *)
(* [active, index, overflow, threw] after key k.                           *)
keydownHandler(k, active, index, n, ov) ==
    LET same == [active |-> active, index |-> index, overflow |-> ov, threw |-> FALSE]
    IN  IF active
        THEN CASE k = "Escape" ->
                    [same EXCEPT !.active = closeLightbox.active,
                                 !.overflow = closeLightbox.overflow]
               [] k = "ArrowRight" ->
                    [same EXCEPT !.index = showNextImage(index, n),
                                 !.threw = updateLightboxImageThrows(
                                               showNextImage(index, n), n)]
               [] k = "ArrowLeft" ->
                    [same EXCEPT !.index = showPrevImage(index, n),
                                 !.threw = updateLightboxImageThrows(
                                               showPrevImage(index, n), n)]
               [] OTHER -> same
        ELSE same

KeyDown(k) ==
    /\ Reached(276)
    /\ k \in Keys
    /\ LET out == keydownHandler(k, lightboxActive, currentImageIndex, galleryLen,
                                 bodyOverflow)
       IN  /\ lightboxActive' = out.active
           /\ currentImageIndex' = out.index
           /\ bodyOverflow' = out.overflow
           /\ lastThrew' = out.threw
    /\ lastEvent' = <<"keydown", k, 0>>
    /\ UNCHANGED <<configVars, hasInteracted, loadingHidden, onceListeners,
                   loadingTimer, domLoaded, sliderVars, reviewVars, gateVars,
                   scrollVars, formVars>>

---------------------------------------------------------------------------
(* 6. STORIA SLIDER (script.js:292-366) *)

(* showNextSlide() without the wrap-around. *)
showNextSlideNoWrap(index, n) == JsAdd(index, 1)

(* The index showNextSlide() stores (script.js:319).  updateSlider() only *)
(* redraws: image and dot number i are 'active' iff i = currentSlideIndex. *)
showNextSlide(index, n) == JsRem(JsAdd(index, 1), n)

(* The index showPrevSlide() stores (script.js:325). *)
showPrevSlide(index, n) == JsRem(JsAdd(JsAdd(index, 0 - 1), n), n)

(* The index goToSlide(index) stores (script.js:330), n slider images. *)
goToSlide(index, n) == index

(* The handle setInterval returns: one no pending timer carries. *)
FreshId(timers) ==
    CHOOSE i \in 1..(Cardinality(timers) + 1) :
        /\ \A t \in timers : t.id # i
        /\ \A j \in 1..(i - 1) : \E t \in timers : t.id = j

(* resetSliderInterval() without its clearInterval. *)
resetSliderIntervalNoClear(timers, handle) ==
    LET id == FreshId(timers)
    IN  [timers |-> timers \cup {[id |-> id, left |-> SliderPeriod]},
         handle |-> id]

(* resetSliderInterval() (script.js:334-338): [timers, handle]. *)
resetSliderInterval(timers, handle) ==
    LET cleared == {t \in timers : t.id # handle}
        id      == FreshId(cleared)
    IN  [timers |-> cleared \cup {[id |-> id, left |-> SliderPeriod]},
         handle |-> id]

(* The slider's controls get their listeners only if images exist         *)
(* (script.js:341).  kind: "arrowRight", "arrowLeft" or "dot"; i: the dot. *)
SliderManual(kind, i) ==
    /\ Reached(341)
    /\ sliderLen > 0
    /\ \/ kind = "arrowRight" /\ i = 0
          /\ currentSlideIndex' = showNextSlide(currentSlideIndex, sliderLen)
       \/ kind = "arrowLeft" /\ i = 0
          /\ currentSlideIndex' = showPrevSlide(currentSlideIndex, sliderLen)
       \/ kind = "dot" /\ i \in 0..(dotsLen - 1)
          /\ currentSlideIndex' = goToSlide(i, sliderLen)
    /\ LET out == resetSliderInterval(sliderTimers, sliderInterval)
       IN  /\ sliderTimers' = out.timers
           /\ sliderInterval' = out.handle
    /\ sliderGap' = 0
    /\ WindowOnce("click", bodyOverflow)
    /\ lastEvent' = <<"click", kind, i>>
    /\ lastThrew' = FALSE
    /\ UNCHANGED <<configVars, lightboxVars, reviewVars, gateVars, scrollVars, formVars>>

(* The slider's timer as a setTimeout: it runs showNextSlide once. *)
SliderTickOneShot ==
    /\ \E t \in sliderTimers :
          /\ t.left = 0
          /\ sliderTimers' = sliderTimers \ {t}
    /\ currentSlideIndex' = showNextSlide(currentSlideIndex, sliderLen)
    /\ sliderGap' = 0
    /\ lastEvent' = <<"timer", "showNextSlide", 0>>
    /\ lastThrew' = FALSE
    /\ UNCHANGED <<configVars, loadingVars, lightboxVars, sliderInterval, reviewVars,
                   gateVars, scrollVars, formVars>>

(* A pending setInterval(showNextSlide, 8000) comes due and is re-armed. *)
SliderTick ==
    /\ \E t \in sliderTimers :
          /\ t.left = 0
          /\ sliderTimers' = (sliderTimers \ {t}) \cup {[t EXCEPT !.left = SliderPeriod]}
    /\ currentSlideIndex' = showNextSlide(currentSlideIndex, sliderLen)
    /\ sliderGap' = 0
    /\ lastEvent' = <<"timer", "showNextSlide", 0>>
    /\ lastThrew' = FALSE
    /\ UNCHANGED <<configVars, loadingVars, lightboxVars, sliderInterval, reviewVars,
                   gateVars, scrollVars, formVars>>

---------------------------------------------------------------------------
(* REVIEWS BANNER: rotation (script.js:572-592) *)

(* rotateReviews() throws a TypeError when reviewItems[index] is          *)
(* undefined (script.js:578-581), before it sets its timeout.              *)
rotateReviewsThrows(index, n) == Undefined(index, n)

(* The index the timeout of rotateReviews() stores (script.js:586). *)
nextReview(index, n) == JsRem(JsAdd(index, 1), n)

(* setInterval(rotateReviews, 8000) comes due and is re-armed. *)
ReviewTick ==
    /\ reviewInterval = 0
    /\ reviewInterval' = ReviewPeriod
    /\ IF rotateReviewsThrows(currentReviewIndex, reviewLen)
       THEN lastThrew' = TRUE /\ UNCHANGED reviewTimeouts
       ELSE lastThrew' = FALSE /\ reviewTimeouts' = Append(reviewTimeouts, ReviewExit)
    /\ lastEvent' = <<"timer", "rotateReviews", 0>>
    /\ UNCHANGED <<configVars, loadingVars, lightboxVars, sliderVars,
                   currentReviewIndex, reviewGap, reviewAdvanced, gateVars, scrollVars, formVars>>

(* The 500 ms timeout of rotateReviews() comes due (script.js:584-588);   *)
(* line 587 throws when the new index names no review item.                *)
ReviewExitTimeout ==
    /\ reviewTimeouts # <<>>
    /\ Head(reviewTimeouts) = 0
    /\ reviewTimeouts' = Tail(reviewTimeouts)
    /\ currentReviewIndex' = nextReview(currentReviewIndex, reviewLen)
    /\ lastThrew' = Undefined(currentReviewIndex', reviewLen)
    /\ reviewGap' = 0
    /\ reviewAdvanced' = TRUE
    /\ lastEvent' = <<"timer", "reviewExit", 0>>
    /\ UNCHANGED <<configVars, loadingVars, lightboxVars, sliderVars, reviewInterval,
                   gateVars, scrollVars, formVars>>

---------------------------------------------------------------------------
(* Time *)

(* The remaining times of all pending timers. *)
PendingLefts ==
    ({loadingTimer, reviewInterval, navTimeout, topTimeout} \ {NoTimer})
        \cup {t.left : t \in sliderTimers}
        \cup SeqToSet(reviewTimeouts) \cup SeqToSet(popupTimers)
        \cup SeqToSet(submitTimers)

(* Observers of elapsed time stop counting at GapCap. *)
GapCap == ReviewPeriod + ReviewExit + ReviewExit

(* The observers of the scroll listeners stop counting at ScrollGapCap. *)
ScrollGapCap == DebounceWait

Elapse(left, dt) == IF left = NoTimer THEN NoTimer ELSE left - dt

(* dt ms pass with no event dispatched: no pending timer is overdue. *)
Tick(dt) ==
    /\ dt > 0
    /\ \A l \in PendingLefts : dt <= l
    /\ loadingTimer' = Elapse(loadingTimer, dt)
    /\ reviewInterval' = Elapse(reviewInterval, dt)
    /\ sliderTimers' = {[t EXCEPT !.left = t.left - dt] : t \in sliderTimers}
    /\ reviewTimeouts' = [i \in 1..Len(reviewTimeouts) |-> reviewTimeouts[i] - dt]
    /\ popupTimers' = [i \in 1..Len(popupTimers) |-> popupTimers[i] - dt]
    /\ submitTimers' = [i \in 1..Len(submitTimers) |-> submitTimers[i] - dt]
    /\ navTimeout' = Elapse(navTimeout, dt)
    /\ topTimeout' = Elapse(topTimeout, dt)
    /\ sliderGap' = Min(sliderGap + dt, GapCap)
    /\ reviewGap' = Min(reviewGap + dt, GapCap)
    /\ scrollGap' = Min(scrollGap + dt, ScrollGapCap)
    /\ navRunGap' = Min(navRunGap + dt, ScrollGapCap)
    /\ topRunGap' = Min(topRunGap + dt, ScrollGapCap)
    /\ lastEvent' = <<"time", "tick", 0>>
    /\ lastThrew' = FALSE
    /\ UNCHANGED <<configVars, hasInteracted, loadingHidden, onceListeners, domLoaded,
                   bodyOverflow, lightboxVars, currentSlideIndex, sliderInterval,
                   currentReviewIndex, reviewAdvanced, gateVars, lastScrollTop,
                   backToTopShown, navArgs, topArgs, fieldValue, fieldError,
                   popupActive, submitCount, lastValid>>

(* The time to the next timer that comes due (0 when none is pending). *)
NextDue ==
    IF PendingLefts = {} THEN 0
    ELSE CHOOSE l \in PendingLefts : \A m \in PendingLefts : l <= m

---------------------------------------------------------------------------
(* REVIEWS BANNER: visibility (script.js:594-634) *)

(* pastDoveSiamo (script.js:609): scrollY >= doveSiamoTop - windowHeight/2,*)
(* both sides doubled so that the half stays exact.                        *)
pastDoveSiamo(sy, wh, dTop) == 2 * sy >= 2 * dTop - wh

(* beforeContactMiddle with the half of the height rounded down. *)
beforeContactMiddleFloor(sy, cTop, cHeight) == sy < cTop + (cHeight \div 2)

(* beforeContactMiddle (script.js:605, 610): scrollY < contactTop +       *)
(* contactHeight/2, both sides doubled.                                    *)
beforeContactMiddle(sy, cTop, cHeight) == 2 * sy < 2 * cTop + cHeight

(* checkBannerVisibility() (script.js:595-617): whether the banner        *)
(* carries the class 'visible' afterwards.                                 *)
checkBannerVisibility(sy, wh, dTop, cTop, cHeight) ==
    pastDoveSiamo(sy, wh, dTop) /\ beforeContactMiddle(sy, cTop, cHeight)

(* A debounce that leaves a pending timeout running instead of replacing  *)
(* it.                                                                     *)
debounceKeepsPending(pending) == IF pending = NoTimer THEN DebounceWait ELSE pending

(* A call of a function made by debounce(func, 100) (script.js:16-26):   *)
(* the pending timeout, if any, is cleared and a new one set.  The value   *)
(* is the ms left of the closure's timeout afterwards.                     *)
debounce(pending) == DebounceWait

(* The scroll position changes to y and a scroll event is dispatched to   *)
(* the window's listeners in the order they were added: hideLoadingPage    *)
(* (script.js:59), the debounced navbar listener (114), then               *)
(* checkBannerVisibility (623) and the debounced back-to-top listener      *)
(* (681), each if the script ran as far as adding it.                      *)
Scroll(y) ==
    /\ y # scrollY
    /\ scrollY' = y
    /\ WindowOnce("scroll", bodyOverflow)
    /\ navTimeout' = (IF Reached(114) THEN debounce(navTimeout) ELSE navTimeout)
    /\ navArgs' = (IF Reached(114) THEN y ELSE navArgs)
    /\ bannerVisible' =
          IF bannerSetup /\ Reached(623)
          THEN checkBannerVisibility(y, windowHeight, doveSiamoTop, contactTop,
                                     contactHeight)
          ELSE bannerVisible
    /\ topTimeout' = (IF Reached(681) THEN debounce(topTimeout) ELSE topTimeout)
    /\ topArgs' = (IF Reached(681) THEN y ELSE topArgs)
    /\ scrollGap' = 0
    /\ lastEvent' = <<"scroll", "window", y>>
    /\ lastThrew' = FALSE
    /\ UNCHANGED <<configVars, lightboxVars, sliderVars, reviewVars, bannerDisplayNone,
                   windowHeight, doveSiamoTop, contactTop, contactHeight,
                   lastScrollTop, backToTopShown, navRunGap, topRunGap, formVars>>

(* The navbar listener's debounce timeout comes due (script.js:19-22,     *)
(* 114-121).                                                               *)
NavDebounceFire ==
    /\ navTimeout = 0
    /\ navTimeout' = NoTimer
    /\ navArgs' = NoArgs
    /\ lastScrollTop' = scrollY
    /\ navRunGap' = 0
    /\ lastEvent' = <<"timer", "navbarScroll", navArgs>>
    /\ lastThrew' = FALSE
    /\ UNCHANGED <<configVars, loadingVars, lightboxVars, sliderVars, reviewVars,
                   gateVars, topTimeout, topArgs, backToTopShown, scrollGap,
                   topRunGap, formVars>>

(* The back-to-top listener's debounce timeout comes due (script.js:19-22,*)
(* 681-689).                                                               *)
TopDebounceFire ==
    /\ topTimeout = 0
    /\ topTimeout' = NoTimer
    /\ topArgs' = NoArgs
    /\ backToTopShown' = (scrollY > BackToTopFrom)
    /\ topRunGap' = 0
    /\ lastEvent' = <<"timer", "backToTopScroll", topArgs>>
    /\ lastThrew' = FALSE
    /\ UNCHANGED <<configVars, loadingVars, lightboxVars, sliderVars, reviewVars,
                   gateVars, navTimeout, navArgs, lastScrollTop, scrollGap,
                   navRunGap, formVars>>

(* A close listener that only removes the class 'visible'. *)
ReviewCloseClickClassOnly ==
    /\ Reached(628)
    /\ bannerSetup
    /\ ~bannerDisplayNone
    /\ bannerVisible' = FALSE
    /\ WindowOnce("click", bodyOverflow)
    /\ lastEvent' = <<"click", "reviewClose", 0>>
    /\ lastThrew' = FALSE
    /\ UNCHANGED <<configVars, lightboxVars, sliderVars, reviewVars, bannerDisplayNone,
                   scrollY, windowHeight, doveSiamoTop, contactTop, contactHeight,
                   scrollVars, formVars>>

(* A click on the banner's X button (script.js:626-633), which is on      *)
(* screen until the banner is taken off it, then the window's once click   *)
(* listener.                                                               *)
ReviewCloseClick ==
    /\ Reached(628)
    /\ bannerSetup
    /\ ~bannerDisplayNone
    /\ bannerVisible' = FALSE
    /\ bannerDisplayNone' = TRUE
    /\ WindowOnce("click", bodyOverflow)
    /\ lastEvent' = <<"click", "reviewClose", 0>>
    /\ lastThrew' = FALSE
    /\ UNCHANGED <<configVars, lightboxVars, sliderVars, reviewVars, scrollY,
                   windowHeight, doveSiamoTop, contactTop, contactHeight, scrollVars,
                   formVars>>

---------------------------------------------------------------------------
(* 8. CONTACT FORM: the fields (script.js:404-448) *)

Fields == {"name", "email", "phone", "eventDate", "guests", "message"}

(* contactForm.reset(): every field back to its default value, empty. *)
EmptyForm == [f \in Fields |-> <<>>]

(* String.prototype.trim() on a value, a sequence of characters. *)
IsSpace(c) == c = " "

(* A validation that forgets to trim. *)
TrimNothing(v) == v

RECURSIVE TrimLeft(_)
TrimLeft(v) == IF v # <<>> /\ IsSpace(Head(v)) THEN TrimLeft(Tail(v)) ELSE v

RECURSIVE TrimRight(_)
TrimRight(v) ==
    IF v # <<>> /\ IsSpace(v[Len(v)]) THEN TrimRight(SubSeq(v, 1, Len(v) - 1)) ELSE v

Trim(v) == TrimRight(TrimLeft(v))

(* [^\s@]+ : a non-empty run of characters, none a space or an '@'. *)
IsLabel(v) == v # <<>> /\ \A i \in 1..Len(v) : ~IsSpace(v[i]) /\ v[i] # "@"

(* /^[^\s@]+@[^\s@]+\.[^\s@]+$/.test(v) (script.js:416, 513): v splits   *)
(* into a label, '@', a label, '.', a label.                               *)
emailRegexTest(v) ==
    \E i, j \in 1..Len(v) :
        /\ i < j
        /\ v[i] = "@" /\ v[j] = "."
        /\ IsLabel(SubSeq(v, 1, i - 1))
        /\ IsLabel(SubSeq(v, i + 1, j - 1))
        /\ IsLabel(SubSeq(v, j + 1, Len(v)))

(* The values a number input can hold, and twice the number JavaScript    *)
(* converts each to in a comparison with a number.                         *)
GuestValues == {<<>>, <<"0">>, <<"0", ".", "5">>, <<"5">>}

ToNumber2(v) ==
    CASE v = <<>> -> 0
      [] v = <<"0">> -> 0
      [] v = <<"0", ".", "5">> -> 1
      [] v = <<"5">> -> 10

(* A submit listener that never marks the guests field. *)
submitGuestsErrorNever(v) == FALSE

(* The submit listener's guests test (script.js:438): an error when the   *)
(* value is '' or less than 1.                                             *)
submitGuestsError(v) == v = <<>> \/ ToNumber2(v) < 2

(* The submit listener's checks (script.js:407-448): the fields it marks  *)
(* with 'error', for the field values val.                                 *)
submitErrors(val) ==
    [f \in Fields |->
        CASE f = "name"      -> Trim(val[f]) = <<>>
          [] f = "email"     -> ~emailRegexTest(Trim(val[f]))
          [] f = "phone"     -> Trim(val[f]) = <<>>
          [] f = "eventDate" -> val[f] = <<>>
          [] f = "guests"    -> submitGuestsError(val[f])
          [] f = "message"   -> Trim(val[f]) = <<>>]

(* field.type of each field, as validateField reads it (script.js:512,    *)
(* 519).                                                                   *)
FieldType(f) ==
    CASE f = "email" -> "email" [] f = "guests" -> "number" [] OTHER -> "text"

(* validateField(field) (script.js:504-530) on a required field f with    *)
(* value v: whether its group carries 'error' afterwards.                  *)
validateField(f, v) ==
    IF Trim(v) = <<>> THEN TRUE
    ELSE IF FieldType(f) = "email" THEN ~emailRegexTest(Trim(v))
    ELSE IF FieldType(f) = "number" THEN ~(ToNumber2(v) > 0)
    ELSE FALSE

(* closeThankYouPopup() (script.js:475-478): [active, values]. *)
closeThankYouPopup == [active |-> FALSE, values |-> EmptyForm]

(* The values the model lets the user give each field. *)
FieldValues(f) ==
    CASE f = "name"      -> {<<>>, <<" ">>, <<"a">>}
      [] f = "email"     -> {<<>>, <<"a">>, <<"a", "@", "a", ".", "a">>}
      [] f = "phone"     -> {<<>>, <<"1">>}
      [] f = "eventDate" -> {<<>>, <<"d">>}
      [] f = "guests"    -> GuestValues
      [] f = "message"   -> {<<>>, <<"a">>}

(* The user changes the value of field f to v (no listener runs). *)
SetField(f, v) ==
    /\ f \in Fields
    /\ v # fieldValue[f]
    /\ fieldValue' = [fieldValue EXCEPT ![f] = v]
    /\ lastEvent' = <<"input", "field", 0>>
    /\ lastThrew' = FALSE
    /\ UNCHANGED <<configVars, loadingVars, lightboxVars, sliderVars, reviewVars,
                   gateVars, scrollVars, fieldError, popupActive, popupTimers,
                   submitTimers, submitCount, lastValid>>

(* Field f loses the focus: its blur listener (script.js:493-498), if the *)
(* script ran as far as adding it.                                         *)
Blur(f) ==
    /\ f \in Fields
    /\ fieldError' = IF Reached(495)
                     THEN [fieldError EXCEPT ![f] = validateField(f, fieldValue[f])]
                     ELSE fieldError
    /\ lastEvent' = <<"blur", f, 0>>
    /\ lastThrew' = FALSE
    /\ UNCHANGED <<configVars, loadingVars, lightboxVars, sliderVars, reviewVars,
                   gateVars, scrollVars, fieldValue, popupActive, popupTimers,
                   submitTimers, submitCount, lastValid>>

(* The form's submit listener (script.js:399-464): it clears the error    *)
(* marks, validates, and for a valid form shows the popup and sets the     *)
(* timeout that submits the form.                                          *)
Submit ==
    LET errs  == submitErrors(fieldValue)
        valid == \A f \in Fields : ~errs[f]
    IN  /\ Reached(399)
        /\ valid => (Len(popupTimers) < MaxPending /\ Len(submitTimers) < MaxPending)
        /\ fieldError' = errs
        /\ lastValid' = valid
        /\ IF valid
           THEN /\ popupActive' = TRUE
                /\ popupTimers' = Append(popupTimers, PopupDelay)
                /\ submitTimers' = Append(submitTimers, SubmitDelay)
           ELSE UNCHANGED <<popupActive, popupTimers, submitTimers>>
        /\ lastEvent' = <<"submit", "contactForm", 0>>
        /\ lastThrew' = FALSE
        /\ UNCHANGED <<configVars, loadingVars, lightboxVars, sliderVars, reviewVars,
                       gateVars, scrollVars, fieldValue, submitCount>>

(* The timeout of the submit listener comes due: contactForm.submit()     *)
(* (script.js:461-463).                                                    *)
SubmitTimeout ==
    /\ submitTimers # <<>>
    /\ Head(submitTimers) = 0
    /\ submitTimers' = Tail(submitTimers)
    /\ submitCount' = Min(submitCount + 1, MaxSubmits)
    /\ lastEvent' = <<"timer", "contactFormSubmit", 0>>
    /\ lastThrew' = FALSE
    /\ UNCHANGED <<configVars, loadingVars, lightboxVars, sliderVars, reviewVars,
                   gateVars, scrollVars, fieldValue, fieldError, popupActive,
                   popupTimers, lastValid>>

(* The popup's 3 s timeout comes due (script.js:470-472). *)
PopupTimeout ==
    /\ popupTimers # <<>>
    /\ Head(popupTimers) = 0
    /\ popupTimers' = Tail(popupTimers)
    /\ popupActive' = closeThankYouPopup.active
    /\ fieldValue' = closeThankYouPopup.values
    /\ lastEvent' = <<"timer", "closeThankYouPopup", 0>>
    /\ lastThrew' = FALSE
    /\ UNCHANGED <<configVars, loadingVars, lightboxVars, sliderVars, reviewVars,
                   gateVars, scrollVars, fieldError, submitTimers, submitCount,
                   lastValid>>

(* A click on the popup's X (script.js:481-483) or on the popup's own     *)
(* background (script.js:486-490), then the window's once click listener.  *)
PopupCloseClick(target) ==
    /\ target \in {"popupClose", "thankYouPopup"}
    /\ Reached(IF target = "popupClose" THEN 482 ELSE 486)
    /\ popupActive
    /\ popupActive' = closeThankYouPopup.active
    /\ fieldValue' = closeThankYouPopup.values
    /\ WindowOnce("click", bodyOverflow)
    /\ lastEvent' = <<"click", target, 0>>
    /\ lastThrew' = FALSE
    /\ UNCHANGED <<configVars, lightboxVars, sliderVars, reviewVars, gateVars,
                   scrollVars, fieldError, popupTimers, submitTimers, submitCount,
                   lastValid>>

---------------------------------------------------------------------------
(* The state after the script has run *)

InitLoading ==
    /\ hasInteracted = FALSE
    /\ loadingHidden = FALSE
    /\ onceListeners = {"scroll", "wheel", "click", "touchstart"}
    /\ loadingTimer = LoadingDelay

InitLightbox ==
    /\ lightboxActive = FALSE
    /\ currentImageIndex = 0

(* script.js:302-303, 341-342 *)
InitSlider ==
    /\ currentSlideIndex = 0
    /\ sliderTimers = IF sliderLen > 0 /\ Reached(342)
                      THEN {[id |-> 1, left |-> SliderPeriod]} ELSE {}
    /\ sliderInterval = IF sliderLen > 0 /\ Reached(342) THEN 1 ELSE 0
    /\ sliderGap = 0

(* script.js:572-592 *)
InitReviews ==
    /\ currentReviewIndex = 0
    /\ reviewInterval = IF bannerSetup /\ Reached(592) THEN ReviewPeriod ELSE NoTimer
    /\ reviewTimeouts = <<>>
    /\ reviewGap = 0
    /\ reviewAdvanced = FALSE

(* script.js:619-620: the initial check, if the banner was set up. *)
InitGate ==
    /\ bannerDisplayNone = FALSE
    /\ bannerVisible = (bannerSetup /\ Reached(620)
                          /\ checkBannerVisibility(scrollY, windowHeight,
                                           doveSiamoTop, contactTop, contactHeight))

InitForm ==
    /\ fieldError = [f \in Fields |-> FALSE]
    /\ popupActive = FALSE
    /\ popupTimers = <<>>
    /\ submitTimers = <<>>
    /\ submitCount = 0
    /\ lastValid = FALSE

(* script.js:111, 658-659: no debounced call is pending. *)
InitScroll ==
    /\ navTimeout = NoTimer
    /\ topTimeout = NoTimer
    /\ lastScrollTop = 0
    /\ backToTopShown = FALSE
    /\ navArgs = NoArgs
    /\ topArgs = NoArgs
    /\ scrollGap = ScrollGapCap
    /\ navRunGap = ScrollGapCap
    /\ topRunGap = ScrollGapCap

InitObservers ==
    /\ lastEvent = <<"script", "load", 0>>
    /\ lastThrew = FALSE

(* A page layout with the banner's sections in document order, in px. *)
FixedLayout ==
    /\ scrollY = 0
    /\ windowHeight = 800
    /\ doveSiamoTop = 1000
    /\ contactTop = 2000
    /\ contactHeight = 600

---------------------------------------------------------------------------
(* Spec: the lightbox, the slider and the loading page, on a page without  *)
(* a reviews banner, from the moment the script has run.                   *)

Init ==
    /\ scriptThrewAt = 0
    /\ galleryLen \in 0..MaxGallery
    /\ sliderLen \in 0..MaxSlides
    /\ dotsLen \in 0..MaxDots
    /\ reviewLen = 0
    /\ bannerSetup = FALSE
    /\ domLoaded = FALSE
    /\ bodyOverflow = ""
    /\ fieldValue = EmptyForm
    /\ FixedLayout
    /\ InitLoading /\ InitLightbox /\ InitSlider /\ InitReviews /\ InitGate
    /\ InitForm /\ InitScroll /\ InitObservers

(* Time passes to the next timer that comes due. *)
NavSteps == {NextDue}

Next ==
    \/ DomContentLoaded
    \/ LoadingTimeout
    \/ WindowEvent("click")
    \/ \E i \in 0..(MaxGallery - 1) : GalleryItemClick(i)
    \/ LightboxNextClick
    \/ LightboxPrevClick
    \/ \E t \in {"lightboxClose", "lightbox"} : LightboxCloseClick(t)
    \/ \E k \in Keys : KeyDown(k)
    \/ \E kind \in {"arrowRight", "arrowLeft"} : SliderManual(kind, 0)
    \/ \E i \in 0..(MaxDots - 1) : SliderManual("dot", i)
    \/ SliderTick
    \/ \E dt \in NavSteps : Tick(dt)

Spec == Init /\ [][Next]_vars

---------------------------------------------------------------------------
(* SpecTimers: the slider and the rotation of the reviews with their       *)
(* timers, on a page without gallery items, after DOMContentLoaded.  Time  *)
(* passes in steps of 500 ms or to the next timer that comes due.          *)

InitTimers ==
    /\ scriptThrewAt = 0
    /\ galleryLen = 0
    /\ sliderLen \in 0..MaxSlides
    /\ dotsLen \in 0..MaxDots
    /\ bannerSetup \in BOOLEAN
    /\ reviewLen \in (IF bannerSetup THEN 0..MaxReviews ELSE {0})
    /\ domLoaded = TRUE
    /\ bodyOverflow = "hidden"
    /\ fieldValue = EmptyForm
    /\ FixedLayout
    /\ InitLoading /\ InitLightbox /\ InitSlider /\ InitReviews /\ InitGate
    /\ InitForm /\ InitScroll /\ InitObservers

TimerSteps == {NextDue, ReviewExit}

NextTimers ==
    \/ LoadingTimeout
    \/ \E kind \in {"arrowRight", "arrowLeft"} : SliderManual(kind, 0)
    \/ \E i \in 0..(MaxDots - 1) : SliderManual("dot", i)
    \/ SliderTick
    \/ ReviewTick
    \/ ReviewExitTimeout
    \/ \E dt \in TimerSteps : Tick(dt)

SpecTimers == InitTimers /\ [][NextTimers]_vars

---------------------------------------------------------------------------
(* The claims *)

IsSliderManual(e) == e[1] = "click" /\ e[2] \in {"arrowRight", "arrowLeft", "dot"}
IsSliderTick(e)   == e[1] = "timer" /\ e[2] = "showNextSlide"
IsReviewTick(e)   == e[1] = "timer" /\ e[2] = "rotateReviews"
IsReviewExit(e)   == e[1] = "timer" /\ e[2] = "reviewExit"
IsLightboxNav(e)  ==
    \/ e[1] = "click" /\ e[2] \in {"lightboxNext", "lightboxPrev"}
    \/ e[1] = "keydown" /\ e[2] \in {"ArrowRight", "ArrowLeft"}

\* C1: with N > 0 items, the current index of the lightbox (set by a click on
\* a gallery item, moved by next/previous) and of the slider (started at 0,
\* moved by next/previous and the automatic ticks; dot clicks only on dots
\* that name an image) is in [0, N) in every reachable state.
C1_IndexInRange ==
    /\ galleryLen > 0 => currentImageIndex \in 0..(galleryLen - 1)
    /\ (sliderLen > 0 /\ dotsLen <= sliderLen)
           => currentSlideIndex \in 0..(sliderLen - 1)

\* C1 witness: both indexes at the last of three items, the lightbox's reached
\* by a previous from 0 and the slider's by next/previous/ticks only.
C1_Witness ==
    /\ galleryLen = 3 /\ currentImageIndex = 2
    /\ lastEvent = <<"click", "lightboxPrev", 0>>
    /\ sliderLen = 3 /\ dotsLen = 0 /\ currentSlideIndex = 2

\* C2: a click on dot i with i outside [0, N) leaves currentSlideIndex
\* unchanged, and no out-of-range index is ever stored.
C2_GoToRejectsOutOfRange ==
    [][(lastEvent'[1] = "click" /\ lastEvent'[2] = "dot"
          /\ ~(lastEvent'[3] \in 0..(sliderLen - 1)))
       => (/\ currentSlideIndex' = currentSlideIndex
           /\ currentSlideIndex' \in 0..(sliderLen - 1))]_vars

\* C3: on an empty collection next/previous/goTo and the rotation tick end
\* without an exception and store no index (it stays as initialised).
C3_EmptyIsNoOp ==
    /\ (galleryLen = 0 /\ IsLightboxNav(lastEvent)) => ~lastThrew
    /\ (sliderLen = 0 /\ (IsSliderManual(lastEvent) \/ IsSliderTick(lastEvent)))
           => ~lastThrew
    /\ (reviewLen = 0 /\ (IsReviewTick(lastEvent) \/ IsReviewExit(lastEvent)))
           => ~lastThrew
    /\ galleryLen = 0 => currentImageIndex = 0
    /\ sliderLen = 0 => currentSlideIndex = 0
    /\ reviewLen = 0 => currentReviewIndex = 0

\* C4: right after a manual slider navigation exactly one interval timer is
\* pending, due in SliderPeriod ms; and showNextSlide never runs from the
\* timer less than SliderPeriod ms after a manual navigation.
C4_ManualResetsTimer ==
    /\ [](IsSliderManual(lastEvent)
            => sliderTimers = {[id |-> sliderInterval, left |-> SliderPeriod]})
    /\ [](sliderLen > 0 => Cardinality(sliderTimers) = 1)
    /\ [][IsSliderTick(lastEvent') => sliderGap >= SliderPeriod]_vars

\* C4 witness: an automatic advance of a slider whose timer is out of phase
\* with the reviews' (both were started together): a manual navigation had
\* reset it.
C4_Witness ==
    /\ IsSliderTick(lastEvent)
    /\ bannerSetup
    /\ reviewInterval \notin {0, ReviewPeriod}

\* C5: the slider's index is advanced by its timer exactly SliderPeriod ms
\* after it was last advanced, set or started, and never later; the reviews'
\* index is advanced exactly ReviewPeriod ms after its last advance (the
\* first: one period and the exit delay after the start), once per tick.
C5_OneAdvancePerPeriod ==
    /\ [][IsSliderTick(lastEvent') => sliderGap = SliderPeriod]_vars
    /\ [](sliderLen > 0 => sliderGap <= SliderPeriod)
    /\ [][IsReviewExit(lastEvent')
            => reviewGap = (IF reviewAdvanced THEN ReviewPeriod
                            ELSE ReviewPeriod + ReviewExit)]_vars
    /\ []((bannerSetup /\ reviewLen > 0)
            => /\ reviewGap <= (IF reviewAdvanced THEN ReviewPeriod
                                ELSE ReviewPeriod + ReviewExit)
               /\ Len(reviewTimeouts) <= 1)

\* C5 witness: the reviews' index has been advanced a second time, 500 ms
\* after the slider, still in phase with the reviews, advanced a second time.
C5_Witness ==
    /\ IsReviewExit(lastEvent)
    /\ reviewLen = 2 /\ currentReviewIndex = 0 /\ reviewAdvanced
    /\ sliderLen = 3 /\ currentSlideIndex = 2
    /\ sliderGap = ReviewExit

\* C9: a keydown while the lightbox is closed, or of a key other than
\* Escape, ArrowLeft, ArrowRight while it is open, changes neither
\* currentImageIndex nor the lightbox's open flag nor body overflow; while it
\* is open Escape closes it and the arrows move the index.
C9_KeysOnlyWhileOpen ==
    [][lastEvent'[1] = "keydown" =>
        /\ (~lightboxActive \/ lastEvent'[2] \notin {"Escape", "ArrowRight", "ArrowLeft"})
              => UNCHANGED <<currentImageIndex, lightboxActive, bodyOverflow>>
        /\ (lightboxActive /\ lastEvent'[2] = "Escape")
              => (~lightboxActive' /\ UNCHANGED currentImageIndex)
        /\ (lightboxActive /\ lastEvent'[2] = "ArrowRight")
              => (/\ currentImageIndex' = (currentImageIndex + 1) % galleryLen
                  /\ UNCHANGED <<lightboxActive, bodyOverflow>>)
        /\ (lightboxActive /\ lastEvent'[2] = "ArrowLeft")
              => (/\ (currentImageIndex' + 1) % galleryLen = currentImageIndex
                  /\ UNCHANGED <<lightboxActive, bodyOverflow>>)]_vars

\* C9 witness: an arrow key was pressed while the lightbox, opened before on
\* the second of three images, was closed.
C9_Witness ==
    /\ lastEvent = <<"keydown", "ArrowRight", 0>>
    /\ ~lightboxActive
    /\ galleryLen = 3 /\ currentImageIndex = 1

\* C15: closeLightbox is idempotent: a call leaves the lightbox closed and
\* body overflow 'auto', and a second call right after the first changes
\* neither of them nor currentImageIndex.
C15_CloseIsIdempotent ==
    [][IsCloseClick(lastEvent')
         => /\ ~lightboxActive' /\ bodyOverflow' = "auto"
            /\ UNCHANGED currentImageIndex
            /\ IsCloseClick(lastEvent)
                  => UNCHANGED <<lightboxActive, bodyOverflow, currentImageIndex>>]_vars

\* C15 witness: the lightbox, opened on the last of three images, was closed
\* by a click on its background and clicked again while closed.
C15_Witness ==
    /\ lastEvent = <<"click", "lightbox", 1>>
    /\ galleryLen = 3 /\ currentImageIndex = 2
    /\ ~lightboxActive /\ bodyOverflow = "auto"

\* C20: whenever the lightbox is open, body overflow is 'hidden', whatever
\* the order of gallery-item clicks, the window's first-interaction click
\* listener, the 3 s loading timeout, DOMContentLoaded and the closes.
C20_OpenImpliesLocked == lightboxActive => bodyOverflow = "hidden"

\* C21: whenever the loading page has been hidden and the lightbox is
\* closed, body overflow is 'auto', whatever the order of the
\* DOMContentLoaded listener, the first user interaction and the 3 s
\* timeout.
C21_HiddenClosedImpliesScrollable ==
    (loadingHidden /\ ~lightboxActive) => bodyOverflow = "auto"

\* C14: from every reachable state with N > 0 items, next followed by
\* previous and previous followed by next give back the current index, for
\* the lightbox and for the slider.
C14_NextPrevRoundTrip ==
    /\ galleryLen > 0 =>
          /\ showPrevImage(showNextImage(currentImageIndex, galleryLen), galleryLen)
                = currentImageIndex
          /\ showNextImage(showPrevImage(currentImageIndex, galleryLen), galleryLen)
                = currentImageIndex
    /\ sliderLen > 0 =>
          /\ showPrevSlide(showNextSlide(currentSlideIndex, sliderLen), sliderLen)
                = currentSlideIndex
          /\ showNextSlide(showPrevSlide(currentSlideIndex, sliderLen), sliderLen)
                = currentSlideIndex

---------------------------------------------------------------------------
(* SpecBanner: scrolling and the reviews banner, on a page without gallery *)
(* and slider, after DOMContentLoaded.                                     *)

ScrollPositions == {0, 501, 599, 600, 2300, 2301}

InitBanner ==
    /\ scriptThrewAt = 0
    /\ galleryLen = 0 /\ sliderLen = 0 /\ dotsLen = 0
    /\ bannerSetup \in BOOLEAN
    /\ reviewLen = (IF bannerSetup THEN 1 ELSE 0)
    /\ domLoaded = TRUE
    /\ bodyOverflow = "hidden"
    /\ fieldValue = EmptyForm
    /\ scrollY \in ScrollPositions
    /\ windowHeight \in {800, 801}
    /\ doveSiamoTop = 1000
    /\ contactTop = 2000
    /\ contactHeight \in {600, 601}
    /\ InitLoading /\ InitLightbox /\ InitSlider /\ InitReviews /\ InitGate
    /\ InitForm /\ InitScroll /\ InitObservers

NextBanner ==
    \/ \E y \in ScrollPositions : Scroll(y)
    \/ ReviewCloseClick
    \/ NavDebounceFire
    \/ TopDebounceFire
    \/ LoadingTimeout
    \/ ReviewTick
    \/ ReviewExitTimeout
    \/ Tick(NextDue)

SpecBanner == InitBanner /\ [][NextBanner]_vars

\* The banner is on screen: it carries 'visible' and is not display: none.
BannerShown == bannerVisible /\ ~bannerDisplayNone

\* The claim's gate on the current scroll inputs: past_start AND
\* before_end_middle, the halves cleared by doubling.
GateNow ==
    /\ 2 * scrollY + windowHeight >= 2 * doveSiamoTop
    /\ 2 * (scrollY - contactTop) < contactHeight

\* C10 (as stated): after every scroll-position change the banner is shown
\* iff past_start AND before_end_middle, whatever happened before.
C10_ShownIffGate ==
    (bannerSetup /\ lastEvent[1] = "scroll") => (BannerShown <=> GateNow)

\* C10 (amended): after every scroll-position change the banner carries the
\* class 'visible' iff past_start AND before_end_middle, and it is shown iff
\* moreover the user has not closed it.
C10_VisibleClassIffGate ==
    (bannerSetup /\ lastEvent[1] = "scroll")
        => /\ bannerVisible <=> GateNow
           /\ BannerShown <=> (GateNow /\ ~bannerDisplayNone)

\* C10 witness: a scroll to the last position before the middle of the
\* contact section (height 601) after the banner was closed.
C10_Witness ==
    /\ bannerSetup /\ lastEvent = <<"scroll", "window", 2300>>
    /\ contactHeight = 601 /\ bannerVisible /\ bannerDisplayNone

\* C19: once the user has closed the banner with the X button it is not
\* displayed again: the click takes it off the screen and no later event,
\* no scroll into the gate's range either, brings it back.
C19_ClosedStaysClosed ==
    /\ [][lastEvent' = <<"click", "reviewClose", 0>>
            => (bannerDisplayNone' /\ ~BannerShown')]_vars
    /\ [][bannerDisplayNone => (bannerDisplayNone' /\ ~BannerShown')]_vars

\* C19 witness: after the banner was closed, a scroll to the first position
\* inside the gate's range (window height 801) put the class 'visible' back
\* on the banner, which stays off the screen.
C19_Witness ==
    /\ lastEvent = <<"scroll", "window", 600>>
    /\ windowHeight = 801
    /\ GateNow /\ bannerVisible /\ bannerDisplayNone /\ ~BannerShown

---------------------------------------------------------------------------
(* SpecForm: the validation of the contact form, on a page without        *)
(* gallery, slider and banner, after DOMContentLoaded: the events of the   *)
(* form and its popup before any of the page's timers comes due.           *)

InitFormPage ==
    /\ scriptThrewAt = 0
    /\ galleryLen = 0 /\ sliderLen = 0 /\ dotsLen = 0 /\ reviewLen = 0
    /\ bannerSetup = FALSE
    /\ domLoaded = TRUE
    /\ bodyOverflow = "hidden"
    /\ fieldValue = EmptyForm
    /\ FixedLayout
    /\ InitLoading /\ InitLightbox /\ InitSlider /\ InitReviews /\ InitGate
    /\ InitForm /\ InitScroll /\ InitObservers

NextForm ==
    \/ \E f \in Fields : \E v \in FieldValues(f) : SetField(f, v)
    \/ \E f \in Fields : Blur(f)
    \/ Submit
    \/ \E t \in {"popupClose", "thankYouPopup"} : PopupCloseClick(t)

SpecForm == InitFormPage /\ [][NextForm]_vars

---------------------------------------------------------------------------
(* SpecEmail: the two validations of the email field, applied to every    *)
(* string of at most MaxEmailLen characters over a letter, '@', '.' and a  *)
(* space.                                                                  *)

EmailAlphabet == {"a", "@", ".", " "}

EmailStrings == UNION {[1..n -> EmailAlphabet] : n \in 0..MaxEmailLen}

InitEmail ==
    /\ scriptThrewAt = 0
    /\ galleryLen = 0 /\ sliderLen = 0 /\ dotsLen = 0 /\ reviewLen = 0
    /\ bannerSetup = FALSE
    /\ domLoaded = TRUE
    /\ bodyOverflow = "hidden"
    /\ \E v \in EmailStrings : fieldValue = [EmptyForm EXCEPT !["email"] = v]
    /\ FixedLayout
    /\ InitLoading /\ InitLightbox /\ InitSlider /\ InitReviews /\ InitGate
    /\ InitForm /\ InitScroll /\ InitObservers

NextEmail ==
    \/ Blur("email")
    \/ Submit

SpecEmail == InitEmail /\ [][NextEmail]_vars

\* The rule of each field as the claims state it: the field fails when it is
\* empty after trimming (name, phone, message, eventDate), when it does not
\* match the email pattern, when it is not a positive number (guests).
RuleFails(f, v) ==
    CASE f = "email"  -> ~emailRegexTest(Trim(v))
      [] f = "guests" -> v = <<>> \/ ToNumber2(v) <= 0
      [] OTHER        -> Trim(v) = <<>>

\* C6: after a submit the fields marked with 'error' are exactly those whose
\* rule fails (marks of an earlier submit or blur on passing fields are
\* gone), and the form counts as valid iff no field fails.
C6_ErrorsAreFailingFields ==
    lastEvent[1] = "submit"
        => /\ \A f \in Fields : fieldError[f] <=> RuleFails(f, fieldValue[f])
           /\ lastValid <=> (\A f \in Fields : ~RuleFails(f, fieldValue[f]))

\* C7: the guests field passes, in the submit listener and in validateField
\* on blur, iff its value is non-empty and numerically greater than 0.
C7_GuestsPositive ==
    (lastEvent[1] = "submit" \/ lastEvent = <<"blur", "guests", 0>>)
        => (~fieldError["guests"]
              <=> (fieldValue["guests"] # <<>> /\ ToNumber2(fieldValue["guests"]) > 0))

\* C22: validateField on blur and the submit listener agree on each of the
\* six fields and every value: a submit that follows the blur of a field,
\* and the blur of a field that follows a submit, the values being the same,
\* leave the field's 'error' mark as the other set it.
C22_BlurAgreesWithSubmit ==
    [][/\ (lastEvent[1] = "blur" /\ lastEvent'[1] = "submit")
            => fieldError'[lastEvent[2]] = fieldError[lastEvent[2]]
       /\ (lastEvent[1] = "submit" /\ lastEvent'[1] = "blur")
            => fieldError'[lastEvent'[2]] = fieldError[lastEvent'[2]]]_vars

Count(v, c) == Cardinality({i \in 1..Len(v) : v[i] = c})

AtPos(v) == CHOOSE i \in 1..Len(v) : v[i] = "@"

\* After the single '@' of v at position p there is a '.' with at least one
\* character on each side of it.
DotAfterAt(v, p) == \E j \in (p + 2)..(Len(v) - 1) : v[j] = "."

\* The email rule as C8 states it, on the value as typed.
ClaimedEmailOK(v) ==
    /\ v # <<>>
    /\ Count(v, "@") = 1
    /\ AtPos(v) > 1
    /\ DotAfterAt(v, AtPos(v))
    /\ ~IsSpace(v[1]) /\ ~IsSpace(v[Len(v)])

\* v without its leading and trailing spaces: from its first to its last
\* character that is no space.
Core(v) ==
    LET solid == {i \in 1..Len(v) : v[i] # " "}
    IN  IF solid = {} THEN <<>>
        ELSE SubSeq(v, CHOOSE i \in solid : \A j \in solid : i <= j,
                       CHOOSE i \in solid : \A j \in solid : j <= i)

\* The email rule as amended, on the value with its surrounding whitespace
\* trimmed off.
AmendedEmailOK(v) ==
    LET t == Core(v)
    IN  /\ t # <<>>
        /\ Count(t, " ") = 0
        /\ Count(t, "@") = 1
        /\ AtPos(t) > 1
        /\ DotAfterAt(t, AtPos(t))

EmailValidated == lastEvent[1] = "submit" \/ lastEvent = <<"blur", "email", 0>>

\* C8 (as stated): the email field passes iff its value is non-empty, has
\* exactly one '@' with a character before it and a '.'-separated label after
\* it, and carries no leading or trailing whitespace.
C8_EmailAsClaimed ==
    EmailValidated => (~fieldError["email"] <=> ClaimedEmailOK(fieldValue["email"]))

\* C8 (amended): the email field passes iff its value, with the surrounding
\* whitespace trimmed off, is non-empty, holds no whitespace, has exactly one
\* '@' with a character before it, and after the '@' a '.' with a character
\* on each side.
C8_EmailAfterTrim ==
    EmailValidated => (~fieldError["email"] <=> AmendedEmailOK(fieldValue["email"]))

\* C8 witness: an address typed with a leading space passed the submit check.
C8_Witness ==
    /\ lastEvent[1] = "submit"
    /\ fieldValue["email"] = <<" ", "a", "@", "a", ".", "a">>
    /\ ~fieldError["email"]

---------------------------------------------------------------------------
(* SpecPopup: the contact form with its thank-you popup and their timers,  *)
(* on a page without gallery, slider and banner, after DOMContentLoaded.   *)
(* The user fills the form in, submits and closes the popup; time passes   *)
(* to the next timer that comes due.                                       *)

(* The values the user gives the fields here: one that passes for each     *)
(* field, and for guests also one between 0 and 1.                         *)
PopupValues(f) ==
    CASE f = "name"      -> {<<"a">>}
      [] f = "email"     -> {<<"a", "@", "a", ".", "a">>}
      [] f = "phone"     -> {<<"1">>}
      [] f = "eventDate" -> {<<"d">>}
      [] f = "guests"    -> {<<"0", ".", "5">>, <<"5">>}
      [] f = "message"   -> {<<"a">>}

InitPopup ==
    /\ scriptThrewAt = 0
    /\ galleryLen = 0 /\ sliderLen = 0 /\ dotsLen = 0 /\ reviewLen = 0
    /\ bannerSetup = FALSE
    /\ domLoaded = TRUE
    /\ bodyOverflow = "hidden"
    /\ fieldValue = EmptyForm
    /\ FixedLayout
    /\ InitLoading /\ InitLightbox /\ InitSlider /\ InitReviews /\ InitGate
    /\ InitForm /\ InitScroll /\ InitObservers

PopupSteps == {NextDue}

NextPopup ==
    \/ \E f \in Fields : \E v \in PopupValues(f) : SetField(f, v)
    \/ Submit
    \/ SubmitTimeout
    \/ PopupTimeout
    \/ \E t \in {"popupClose", "thankYouPopup"} : PopupCloseClick(t)
    \/ LoadingTimeout
    \/ \E dt \in PopupSteps : Tick(dt)

SpecPopup == InitPopup /\ [][NextPopup]_vars

IsPopupTimeout(e) == e[1] = "timer" /\ e[2] = "closeThankYouPopup"

\* C11: an explicit stop cancels the component's pending timers: the popup's
\* 3 s timer never runs closeThankYouPopup on a popup the user has closed,
\* and rotateReviews never runs from its interval after the user has closed
\* the banner.
C11_StopCancelsTimers ==
    /\ [][IsPopupTimeout(lastEvent') => popupActive]_vars
    /\ [][IsReviewTick(lastEvent') => ~bannerDisplayNone]_vars

IsSubmitEvent(e) == e[1] = "submit" /\ e[2] = "contactForm"

\* C16: contactForm.submit() runs only from the timeout that a submit event
\* sets, and a submit event sets it (and shows the popup) only when every one
\* of the six fields passed; a submit event with a failing field shows no
\* popup, sets no timeout and submits nothing.
C16_SubmitsOnlyValidForm ==
    /\ [][(IsSubmitEvent(lastEvent')
             /\ \E f \in Fields : fieldError'[f] \/ RuleFails(f, fieldValue[f]))
            => UNCHANGED <<popupActive, popupTimers, submitTimers, submitCount>>]_vars
    /\ [][(Len(submitTimers') > Len(submitTimers) \/ (~popupActive /\ popupActive'))
            => /\ IsSubmitEvent(lastEvent')
               /\ \A f \in Fields : ~fieldError'[f] /\ ~RuleFails(f, fieldValue[f])]_vars
    /\ [][submitCount' # submitCount
            => /\ lastEvent' = <<"timer", "contactFormSubmit", 0>>
               /\ submitTimers # <<>> /\ Head(submitTimers) = 0
               /\ submitTimers' = Tail(submitTimers)]_vars

\* C16 witness: after one form was submitted and the popup closed, a submit
\* event with 0.5 guests (every other field passing) failed: no popup, no
\* second submission pending.
C16_Witness ==
    /\ IsSubmitEvent(lastEvent) /\ ~lastValid
    /\ fieldValue["guests"] = <<"0", ".", "5">>
    /\ \A f \in Fields \ {"guests"} : ~fieldError[f]
    /\ fieldError["guests"]
    /\ submitCount = 1 /\ submitTimers = <<>> /\ ~popupActive

---------------------------------------------------------------------------
(* SpecScroll: bursts of scroll events and the listeners they run, on a    *)
(* page without gallery and slider, after DOMContentLoaded.  Time passes   *)
(* in steps of 50 ms or to the next timer that comes due.                  *)

ScrollSpots == {0, 500, 501}

InitScrollPage ==
    /\ scriptThrewAt = 0
    /\ galleryLen = 0 /\ sliderLen = 0 /\ dotsLen = 0
    /\ bannerSetup \in BOOLEAN
    /\ reviewLen = (IF bannerSetup THEN 1 ELSE 0)
    /\ domLoaded = TRUE
    /\ bodyOverflow = "hidden"
    /\ fieldValue = EmptyForm
    /\ FixedLayout
    /\ InitLoading /\ InitLightbox /\ InitSlider /\ InitReviews /\ InitGate
    /\ InitForm /\ InitScroll /\ InitObservers

ScrollSteps == {NextDue, 50}

NextScroll ==
    \/ \E y \in ScrollSpots : Scroll(y)
    \/ NavDebounceFire
    \/ TopDebounceFire
    \/ LoadingTimeout
    \/ ReviewTick
    \/ ReviewExitTimeout
    \/ \E dt \in ScrollSteps : Tick(dt)

SpecScroll == InitScrollPage /\ [][NextScroll]_vars

IsNavFire(e) == e[1] = "timer" /\ e[2] = "navbarScroll"
IsTopFire(e) == e[1] = "timer" /\ e[2] = "backToTopScroll"

\* C12: no scroll listener that reads layout runs its body twice less than
\* DebounceWait ms apart: not checkBannerVisibility (it runs at every scroll
\* event of a page with the banner), not the navbar listener's body, not the
\* back-to-top listener's body.
C12_LayoutReadsRateLimited ==
    /\ [][(lastEvent'[1] = "scroll" /\ bannerSetup /\ scrollGap > 0)
            => scrollGap >= DebounceWait]_vars
    /\ [][IsNavFire(lastEvent') => navRunGap >= DebounceWait]_vars
    /\ [][IsTopFire(lastEvent') => topRunGap >= DebounceWait]_vars

\* C18: a debounced function runs only DebounceWait ms after the most recent
\* call: every call leaves one timeout pending, due DebounceWait ms after
\* that call; the function runs exactly then, with the arguments of that
\* call, and leaves nothing pending, so a burst runs it once.
C18_DebounceRunsOnceAfterBurst ==
    /\ [][lastEvent'[1] = "scroll"
            => (navTimeout' = DebounceWait /\ topTimeout' = DebounceWait)]_vars
    /\ [](navTimeout # NoTimer => navTimeout = DebounceWait - scrollGap)
    /\ [](topTimeout # NoTimer => topTimeout = DebounceWait - scrollGap)
    /\ [][IsNavFire(lastEvent')
            => (/\ scrollGap = DebounceWait
                /\ lastEvent'[3] = scrollY
                /\ navTimeout' = NoTimer)]_vars
    /\ [][IsTopFire(lastEvent')
            => (/\ scrollGap = DebounceWait
                /\ lastEvent'[3] = scrollY
                /\ topTimeout' = NoTimer
                /\ backToTopShown' = (scrollY > BackToTopFrom))]_vars

\* C18 witness: the back-to-top listener's body runs 150 ms after the load,
\* 100 ms after the last scroll event of a burst that left position 0 and came
\* back to it within the first 50 ms.
C18_Witness ==
    /\ lastEvent = <<"timer", "backToTopScroll", 0>>
    /\ scrollY = 0
    /\ loadingTimer = LoadingDelay - 150

---------------------------------------------------------------------------
(* SpecSetup: the page when a top-level statement of the script throws     *)
(* because an element it looks up is missing: #hamburger (script.js:78),   *)
(* .lightbox-close (264) or #contactForm (399); 0: nothing is missing.     *)
(* The slider's timer, the blur validation of the (empty) name field, the  *)
(* reviews banner and the scroll listeners, from the moment the script has *)
(* ended.                                                                  *)

ThrowLines == {0, 78, 264, 399}

SetupSpots == {0, 600}

InitSetup ==
    /\ scriptThrewAt \in ThrowLines
    /\ galleryLen = 0
    /\ sliderLen = 2 /\ dotsLen = 0
    /\ bannerSetup = TRUE
    /\ reviewLen = 1
    /\ domLoaded = FALSE
    /\ bodyOverflow = ""
    /\ fieldValue = EmptyForm
    /\ FixedLayout
    /\ InitLoading /\ InitLightbox /\ InitSlider /\ InitReviews /\ InitGate
    /\ InitForm /\ InitScroll /\ InitObservers

NextSetup ==
    \/ DomContentLoaded
    \/ LoadingTimeout
    \/ \E y \in SetupSpots : Scroll(y)
    \/ NavDebounceFire
    \/ TopDebounceFire
    \/ SliderTick
    \/ ReviewCloseClick
    \/ ReviewTick
    \/ ReviewExitTimeout
    \/ Blur("name")
    \/ Tick(NextDue)

SpecSetup == InitSetup /\ [][NextSetup]_vars

\* C13: when the setup of one component throws, every other component is
\* still set up and works: the slider's interval runs, the banner's rotation
\* runs and a scroll event sets the banner's class and schedules the
\* back-to-top listener, and (unless it is the form's own setup that threw)
\* a blur validates its field.
C13_FailureIsIsolated ==
    /\ sliderLen > 0 => Cardinality(sliderTimers) = 1
    /\ bannerSetup => reviewInterval # NoTimer
    /\ lastEvent[1] = "scroll"
          => /\ topTimeout = DebounceWait
             /\ bannerSetup =>
                  (bannerVisible <=> checkBannerVisibility(scrollY, windowHeight,
                                         doveSiamoTop, contactTop, contactHeight))
    /\ (lastEvent[1] = "blur" /\ scriptThrewAt # 399)
          => fieldError[lastEvent[2]]
                = validateField(lastEvent[2], fieldValue[lastEvent[2]])

---------------------------------------------------------------------------
(* SpecLoading: the loading page, its triggers and DOMContentLoaded, on a   *)
(* page without gallery, slider and banner,                                *)
(* from the moment the script has run.  Time passes to the next timer that *)
(* comes due; time does pass, and a timeout that is due does run.          *)

LoadingSpots == {0, 501}

InitLoadingPage ==
    /\ scriptThrewAt = 0
    /\ galleryLen = 0 /\ sliderLen = 0 /\ dotsLen = 0 /\ reviewLen = 0
    /\ bannerSetup = FALSE
    /\ domLoaded = FALSE
    /\ bodyOverflow = ""
    /\ fieldValue = EmptyForm
    /\ FixedLayout
    /\ InitLoading /\ InitLightbox /\ InitSlider /\ InitReviews /\ InitGate
    /\ InitForm /\ InitScroll /\ InitObservers

LoadingSteps == {NextDue}

TimePasses == \E dt \in LoadingSteps : Tick(dt)

NextLoading ==
    \/ DomContentLoaded
    \/ LoadingTimeout
    \/ \E ev \in {"wheel", "touchstart", "click"} : WindowEvent(ev)
    \/ \E y \in LoadingSpots : Scroll(y)
    \/ NavDebounceFire
    \/ TopDebounceFire
    \/ TimePasses

SpecLoading ==
    /\ InitLoadingPage
    /\ [][NextLoading]_vars
    /\ WF_vars(TimePasses)
    /\ WF_vars(LoadingTimeout)

(* The events that run hideLoadingPage and no other writer of overflow. *)
IsHideTrigger(e) ==
    \/ e[1] \in {"scroll", "wheel", "touchstart", "click"} /\ e[2] = "window"
    \/ e[1] = "timer" /\ e[2] = "hideLoadingPage"

\* C17: the loading page is hidden by the first scroll, wheel, click or
\* touchstart or by the 3 s timeout, whichever comes first: it is eventually
\* hidden on every run; the first trigger adds 'hidden' and sets overflow to
\* 'auto', every later trigger changes neither; once hidden the page stays
\* hidden; and it is hidden once the timeout has run.
C17_LoadingHiddenOnce ==
    /\ <>loadingHidden
    /\ [][(IsHideTrigger(lastEvent') /\ ~hasInteracted)
            => (loadingHidden' /\ hasInteracted' /\ bodyOverflow' = "auto")]_vars
    /\ [][(IsHideTrigger(lastEvent') /\ hasInteracted)
            => UNCHANGED <<loadingHidden, hasInteracted, bodyOverflow>>]_vars
    /\ [][lastEvent'[1] \in {"scroll", "wheel", "touchstart", "click"}
            => loadingHidden']_vars
    /\ [][loadingHidden => loadingHidden']_vars
    /\ [](loadingHidden <=> hasInteracted)
    /\ [](loadingTimer = NoTimer => loadingHidden)

\* C17 witness: the 3 s timeout ran after a first interaction had hidden the
\* page and DOMContentLoaded had then locked scrolling again: the timeout
\* left overflow 'hidden' as it was.
C17_Witness ==
    /\ lastEvent = <<"timer", "hideLoadingPage", 0>>
    /\ loadingHidden /\ bodyOverflow = "hidden"
    /\ domLoaded /\ "wheel" \notin onceListeners

=============================================================================
